---- MODULE Spec2Model ----
(***************************************************************************)
(* A model of the project dashboard page (src/src/pages/LeaseTrackerPage   *)
(* .tsx) and of the generic data-fetch hook (src/src/hooks/useProjectData  *)
(* .ts).  Every handler is split at its awaits: the part up to an await is *)
(* one action, the continuation after the awaited result is another.       *)
(***************************************************************************)
EXTENDS Integers, Sequences, FiniteSets, TLC

VARIABLES
    \* ---- LeaseTrackerPage: React state and route
    id,            \* useParams().id: "" when the route carries none
    isLoaded,      \* useUser().isLoaded
    user,          \* useUser().user: NULL or a user
    project,       \* useState<ProjectData | null>
    loading,       \* useState(true)
    error,         \* useState<string | null>
    copySuccess,   \* useState(false)
    cardOrder,     \* usePersistentState(..., DEFAULT_CARD_ORDER)
    location,      \* "page" while the page is mounted, else the route navigated to
    \* ---- the page's environment
    localStore,    \* the durable local preference store entry of the page
    db,            \* the backend's projects table: project id -> row
    projQueries,   \* project lookups in flight
    saves,         \* card-order saves in flight
    shareOps,      \* the share operations started, in order, each with its position
    clipboardApi,  \* navigator.clipboard is defined
    clipboard,     \* the clipboard's text
    copied,        \* history: every text a copy has put on the clipboard
    alerts,        \* number of alerts shown
    timers,        \* pending setTimeout(() => setCopySuccess(false)) callbacks
    nOps,          \* number of page operations started (requests, share operations)
    last,          \* history: what the last step did
    \* ---- useProjectData: parameters, React state, environment
    hProjectId, hShareId, hDataType, hUser,
    data, hLoading, hError,
    hInflight,     \* backend calls in flight
    hCalls,        \* number of backend calls issued
    hMounted,      \* the mount effect has run
    hLast          \* history: what the last step of the hook did

pageVars == <<id, isLoaded, user, project, loading, error, copySuccess, location>>
cardVars == <<cardOrder, localStore>>
envVars  == <<db, projQueries, saves, shareOps, clipboardApi, clipboard, copied, alerts,
              timers, nOps, last>>
hookVars == <<hProjectId, hShareId, hDataType, hUser, data, hLoading, hError,
              hInflight, hCalls, hMounted, hLast>>
vars == <<pageVars, cardVars, envVars, hookVars>>

NULL == "null"
\* project === null (a record, so that it compares with a row)
NoProject == [none |-> TRUE]

\* ---------------------------------------------------------------- bounds
MaxLen == 3          \* longest card list of the reorder specification
MaxKey == 2          \* stale order keys a0..aMaxKey of that specification's lists
MaxReorders == 2     \* reorder operations in one behaviour
MaxCalls == 2        \* backend calls the hook issues in one behaviour
MaxRecs == 3         \* rows the backend holds for the hook
MaxShares == 3       \* share operations in one behaviour
MaxFetches == 2      \* project lookups in one behaviour

\* ------------------------------------------------------------ order keys
\* A string is the sequence of its character codes; comparison is by code.
CharA == 97
Char0 == 48

RECURSIVE DecimalDigits(_)
DecimalDigits(n) ==
    IF n < 10 THEN <<Char0 + n>>
    ELSE DecimalDigits(n \div 10) \o <<Char0 + (n % 10)>>

\* `a${index}`
OrderKeyOf(index) == <<CharA>> \o DecimalDigits(index)

\* s < t in JavaScript's string comparison
RECURSIVE StrLess(_, _)
StrLess(s, t) ==
    IF t = <<>> THEN FALSE
    ELSE IF s = <<>> THEN TRUE
    ELSE IF Head(s) # Head(t) THEN Head(s) < Head(t)
    ELSE StrLess(Tail(s), Tail(t))

\* ----------------------------------------------------------------- cards
Card(i, ty, ti, k) == [id |-> i, type |-> ty, title |-> ti, order_key |-> k]

DEFAULT_CARD_ORDER ==
    << Card("updates", "updates", "Recent Updates", OrderKeyOf(0)),
       Card("availability", "availability", "Client Tour Availability", OrderKeyOf(1)),
       Card("properties", "properties", "Properties of Interest", OrderKeyOf(2)),
       Card("roadmap", "roadmap", "Project Roadmap", OrderKeyOf(3)),
       Card("documents", "documents", "Project Documents", OrderKeyOf(4)) >>

\* Array.prototype.splice(start, 1) on a copy: the list without index start
SpliceRemove(list, start) ==
    IF start >= Len(list) THEN list
    ELSE SubSeq(list, 1, start) \o SubSeq(list, start + 2, Len(list))

\* Array.prototype.splice(start, 0, item): item inserted before index start,
\* a start past the end is clamped to the end
SpliceInsert(list, start, item) ==
    LET at == IF start > Len(list) THEN Len(list) ELSE start
    IN  SubSeq(list, 1, at) \o <<item>> \o SubSeq(list, at + 1, Len(list))

\* mutant: the map keeps every card's old key
RegenerateKeys_KeepsOldKeys(list) == list

\* newOrder.map((card, index) => ({ ...card, order_key: `a${index}` }))
RegenerateKeys(list) ==
    [k \in 1..Len(list) |-> [list[k] EXCEPT !.order_key = OrderKeyOf(k - 1)]]

\* mutant: the two positions are swapped instead of the card being moved
UpdatedOrder_Swaps(order, oldIndex, newIndex) ==
    RegenerateKeys([k \in 1..Len(order) |->
                       IF k = oldIndex + 1 THEN order[newIndex + 1]
                       ELSE IF k = newIndex + 1 THEN order[oldIndex + 1]
                       ELSE order[k]])

\* updatedOrder of handleCardReorder
UpdatedOrder(order, oldIndex, newIndex) ==
    LET removed  == order[oldIndex + 1]
        newOrder == SpliceInsert(SpliceRemove(order, oldIndex), newIndex, removed)
    IN  RegenerateKeys(newOrder)

\* mutant: the setter does not write the local preference store
SetCardOrder_SkipsLocalStore(order) ==
    /\ cardOrder' = order
    /\ UNCHANGED localStore

\* setCardOrder of usePersistentState: the state and its local store entry
SetCardOrder(order) ==
    /\ cardOrder' = order
    /\ localStore' = order

\* saveDashboardCardOrder(order, projectId, supabase): one update request
SaveRequest(n, projectId, order) == [n |-> n, projectId |-> projectId, order |-> order]

\* the page shows the card list: isLoaded, not loading, no error, a project
ShowsProject ==
    /\ location = "page"
    /\ isLoaded /\ ~loading
    /\ error = NULL /\ project # NoProject

handleCardReorder(oldIndex, newIndex) ==
    /\ ShowsProject
    /\ nOps < MaxReorders
    /\ oldIndex \in 0..(Len(cardOrder) - 1)
    /\ newIndex \in 0..(Len(cardOrder) - 1)
    /\ LET updatedOrder == UpdatedOrder(cardOrder, oldIndex, newIndex)
       IN  /\ SetCardOrder(updatedOrder)
           /\ saves' = IF project.id # ""
                       THEN saves \cup {SaveRequest(nOps + 1, project.id, updatedOrder)}
                       ELSE saves
           /\ last' = [op |-> "reorder", from |-> oldIndex, to |-> newIndex,
                       before |-> cardOrder]
    /\ nOps' = nOps + 1
    /\ UNCHANGED <<pageVars, hookVars, db, projQueries, shareOps, clipboardApi, clipboard,
                   copied, alerts, timers>>

\* the backend answers a card-order save: the row is written unless it fails
saveDashboardCardOrderDone(s, ok) ==
    /\ s \in saves
    /\ saves' = saves \ {s}
    /\ db' = IF ok /\ s.projectId \in DOMAIN db
             THEN [db EXCEPT ![s.projectId].dashboard_card_order =
                                 [shape |-> "array", items |-> s.order]]
             ELSE db
    /\ last' = [op |-> "saveDone", n |-> s.n, ok |-> ok]
    /\ UNCHANGED <<pageVars, cardVars, hookVars, projQueries, shareOps, clipboardApi,
                   clipboard, copied, alerts, timers, nOps>>

\* ------------------------------------------------------- backend records
\* dashboard_card_order as stored: absent, an array of entries, or another value
NoStoredOrder == [shape |-> "absent", items |-> <<>>]

Row(i, deletedAt, shareId, stored) ==
    [id |-> i, deleted_at |-> deletedAt, public_share_id |-> shareId,
     dashboard_card_order |-> stored]

\* the projects table at the start: p1 is live, p2 is soft-deleted
InitialDb ==
    [p \in {"p1", "p2"} |->
        Row(p, IF p = "p2" THEN "2025-01-01" ELSE NULL, NULL, NoStoredOrder)]

\* ---------------------------------------------------------- fetchProject
\* supabase.from("projects").select("*").eq("id", id).is("deleted_at", null).single()
\* mutant: the soft-delete filter is missing
ProjectQuery_NoSoftDeleteFilter(n, projectId) ==
    [n |-> n, filters |-> {[column |-> "id", value |-> projectId]},
     pc |-> "sent", result |-> "none", row |-> NoProject]

ProjectQuery(n, projectId) ==
    [n |-> n,
     filters |-> {[column |-> "id", value |-> projectId],
                  [column |-> "deleted_at", value |-> NULL]},
     pc |-> "sent", result |-> "none", row |-> NoProject]

\* the rows of the projects table a query selects
Selected(query) ==
    {p \in DOMAIN db : \A f \in query.filters : db[p][f.column] = f.value}

\* an entry of a stored card order carries an order_key field
HasOrderKey(entry) == "order_key" \in DOMAIN entry

\* mutant: every stored order is written back
NeedsMigration_AnyStored(stored) == stored.shape # "absent"

\* needsMigration, lines 87-96: a stored value that is not an array, or an array
\* with an entry lacking order_key
NeedsMigration(stored) ==
    /\ stored.shape # "absent"
    /\ IF stored.shape = "array"
       THEN ~(\A k \in 1..Len(stored.items) : HasOrderKey(stored.items[k]))
       ELSE TRUE

\* migrateDashboardCardOrder(stored, defaultOrder): the default order when nothing
\* valid is stored, the stored entries with regenerated keys when some entry
\* lacks one, the stored order otherwise
migrateDashboardCardOrder(stored, defaultOrder) ==
    IF stored.shape # "array" THEN defaultOrder
    ELSE IF \A k \in 1..Len(stored.items) : HasOrderKey(stored.items[k])
    THEN stored.items
    ELSE [k \in 1..Len(stored.items) |->
             Card(stored.items[k].id, stored.items[k].type, stored.items[k].title,
                  OrderKeyOf(k - 1))]

\* fetchProject up to its await
fetchProject ==
    IF id = ""
    THEN UNCHANGED <<projQueries, nOps>>
    ELSE /\ nOps < MaxFetches
         /\ projQueries' = projQueries \cup {ProjectQuery(nOps + 1, id')}
         /\ nOps' = nOps + 1

\* the auth effect, lines 233-239, run after a render with the primed values
AuthEffect ==
    IF isLoaded' /\ user' # NULL /\ id' # ""
    THEN /\ nOps < MaxFetches
         /\ projQueries' = projQueries \cup {ProjectQuery(nOps + 1, id')}
         /\ nOps' = nOps + 1
         /\ location' = "page"
    ELSE IF isLoaded' /\ user' = NULL
    THEN /\ location' = "/"
         /\ UNCHANGED <<projQueries, nOps>>
    ELSE /\ location' = "page"
         /\ UNCHANGED <<projQueries, nOps>>

\* the page mounts: the first run of the effect
pageMount ==
    /\ location = "mounting"
    /\ UNCHANGED <<id, isLoaded, user>>
    /\ AuthEffect
    /\ last' = [op |-> "effect"]
    /\ UNCHANGED <<project, loading, error, copySuccess>>
    /\ UNCHANGED <<cardVars, hookVars, db, saves, shareOps, clipboardApi, clipboard,
                   copied, alerts, timers>>

\* the identity provider finishes loading, or the user signs out: a render with
\* the new values, after which the effect runs again
identityChanged(loaded, usr) ==
    /\ location = "page"
    /\ <<loaded, usr>> # <<isLoaded, user>>
    /\ isLoaded => loaded
    /\ ~loaded => usr = NULL
    /\ isLoaded' = loaded /\ user' = usr
    /\ UNCHANGED id
    /\ AuthEffect
    /\ last' = [op |-> "effect"]
    /\ UNCHANGED <<project, loading, error, copySuccess>>
    /\ UNCHANGED <<cardVars, hookVars, db, saves, shareOps, clipboardApi, clipboard,
                   copied, alerts, timers>>

\* the route's identifier changes: a render, after which the effect runs again
routeChanged(newId) ==
    /\ location = "page"
    /\ newId # id
    /\ id' = newId
    /\ UNCHANGED <<isLoaded, user>>
    /\ AuthEffect
    /\ last' = [op |-> "effect"]
    /\ UNCHANGED <<project, loading, error, copySuccess>>
    /\ UNCHANGED <<cardVars, hookVars, db, saves, shareOps, clipboardApi, clipboard,
                   copied, alerts, timers>>

\* ProjectHeader calls onProjectUpdate, which is fetchProject
headerRefresh ==
    /\ ShowsProject
    /\ UNCHANGED <<id, isLoaded, user>>
    /\ fetchProject
    /\ last' = [op |-> "refresh"]
    /\ UNCHANGED <<project, loading, error, copySuccess, location>>
    /\ UNCHANGED <<cardVars, hookVars, db, saves, shareOps, clipboardApi, clipboard,
                   copied, alerts, timers>>

\* the backend answers a project lookup: .single() gives the one selected row,
\* an error when it selects none, or the request fails or throws
projectsSelect(query, failure) ==
    /\ query \in projQueries
    /\ query.pc = "sent"
    /\ failure \in {"none", "error", "threw"}
    /\ LET rows == Selected(query)
           answered ==
               IF failure # "none"
               THEN [query EXCEPT !.pc = "answered", !.result = failure]
               ELSE IF Cardinality(rows) = 1
               THEN [query EXCEPT !.pc = "answered", !.result = "data",
                                  !.row = db[CHOOSE p \in rows : TRUE]]
               ELSE [query EXCEPT !.pc = "answered", !.result = "error"]
       IN  projQueries' = (projQueries \ {query}) \cup {answered}
    /\ last' = [op |-> "select"]
    /\ UNCHANGED <<pageVars, cardVars, hookVars, db, saves, shareOps, clipboardApi,
                   clipboard, copied, alerts, timers, nOps>>

\* mutant: the catch block sets no error
ErrorAfterFetch_CatchSetsNothing(result, current) ==
    IF result = "error" THEN "Failed to load project" ELSE current

\* the error state after the lookup: setError on the error branch and in the
\* catch block, no call of setError on success
ErrorAfterFetch(result, current) ==
    IF result = "error" THEN "Failed to load project"
    ELSE IF result = "threw" THEN "An unexpected error occurred"
    ELSE current

\* fetchProject after its await: lines 72-106
fetchProjectAnswered(query) ==
    /\ query \in projQueries
    /\ query.pc = "answered"
    /\ location = "page"
    /\ projQueries' = projQueries \ {query}
    /\ loading' = FALSE
    /\ error' = ErrorAfterFetch(query.result, error)
    /\ IF query.result # "data"
       THEN UNCHANGED <<project, cardVars, saves>>
       ELSE LET stored == query.row.dashboard_card_order
                migratedCardOrder == migrateDashboardCardOrder(stored, DEFAULT_CARD_ORDER)
            IN  /\ project' = query.row
                /\ SetCardOrder(migratedCardOrder)
                /\ saves' = IF NeedsMigration(stored)
                            THEN saves \cup {SaveRequest(query.n, query.row.id,
                                                         migratedCardOrder)}
                            ELSE saves
    /\ last' = [op |-> "fetched", result |-> query.result]
    /\ UNCHANGED <<id, isLoaded, user, copySuccess, location>>
    /\ UNCHANGED <<hookVars, db, shareOps, clipboardApi, clipboard, copied, alerts,
                   timers, nOps>>

\* the "Back to Projects" button of the header and of the not-found view
backToProjects ==
    /\ location = "page"
    /\ isLoaded /\ ~loading
    /\ location' = "/projects"
    /\ last' = [op |-> "back"]
    /\ UNCHANGED <<id, isLoaded, user, project, loading, error, copySuccess>>
    /\ UNCHANGED <<cardVars, hookVars, db, projQueries, saves, shareOps, clipboardApi,
                   clipboard, copied, alerts, timers, nOps>>

\* ------------------------------------------------------ share operation
\* window.location.origin
Origin == "https://app.example"

\* `${window.location.origin}/share/${shareId}`
PublicUrl(shareId) == Origin \o "/share/" \o shareId

\* crypto.randomUUID(): a fresh identifier for the n-th operation
RandomUUID(n) == "uuid-" \o ToString(n)

\* a continuation of an await that is already settled runs before any other event
NoMicrotask == \A n \in 1..Len(shareOps) : shareOps[n].pc # "resume"

\* mutant: copyToClipboard gives up without trying the fallback
FallbackCopy_Skipped(op, ok) ==
    [op EXCEPT !.success = FALSE, !.pc = "resume"]

\* the fallback of copyToClipboard (lines 142-157): execCommand("copy") returned
\* true (ok), or returned false or threw
FallbackCopy(op, ok) ==
    [op EXCEPT !.fallback = IF ok THEN "ok" ELSE "failed", !.success = ok, !.pc = "resume"]

\* handleShareProject up to its first await, and copyToClipboard up to its await:
\* without navigator.clipboard the fallback runs at once
handleShareProject(fallbackOk) ==
    /\ ShowsProject /\ user # NULL
    /\ NoMicrotask
    /\ Len(shareOps) < MaxShares
    /\ LET n == Len(shareOps) + 1
           existing == project.public_share_id
           shareId == IF existing # NULL THEN existing ELSE RandomUUID(n)
           op == [pc |-> "writing", project |-> project, shareId |-> shareId,
                  generated |-> (existing = NULL),
                  primary |-> IF clipboardApi THEN "pending" ELSE "absent",
                  fallback |-> "untried", success |-> FALSE, update |-> "none",
                  afterFirst |-> (Len(shareOps) >= 1 /\ shareOps[1].pc = "done")]
       IN  IF clipboardApi
           THEN /\ shareOps' = Append(shareOps, op)
                /\ UNCHANGED <<clipboard, copied>>
           ELSE /\ shareOps' = Append(shareOps, FallbackCopy(op, fallbackOk))
                /\ clipboard' = IF fallbackOk THEN PublicUrl(shareId) ELSE clipboard
                /\ copied' = IF fallbackOk THEN copied \cup {PublicUrl(shareId)} ELSE copied
    /\ nOps' = nOps + 1
    /\ UNCHANGED <<pageVars, cardVars, hookVars, db, projQueries, saves, clipboardApi,
                   alerts, timers, last>>

\* navigator.clipboard.writeText settles: resolved, copyToClipboard returns true;
\* rejected, its catch falls through to the fallback
copyToClipboard(n, resolved, fallbackOk) ==
    /\ n \in 1..Len(shareOps)
    /\ NoMicrotask
    /\ shareOps[n].pc = "writing"
    /\ LET op == shareOps[n]
           copies == resolved \/ fallbackOk
       IN  /\ shareOps' = [shareOps EXCEPT ![n] =
                  IF resolved
                  THEN [op EXCEPT !.primary = "resolved", !.success = TRUE, !.pc = "resume"]
                  ELSE FallbackCopy([op EXCEPT !.primary = "rejected"], fallbackOk)]
           /\ clipboard' = IF copies THEN PublicUrl(op.shareId) ELSE clipboard
           /\ copied' = IF copies THEN copied \cup {PublicUrl(op.shareId)} ELSE copied
    /\ UNCHANGED <<pageVars, cardVars, hookVars, db, projQueries, saves, clipboardApi,
                   alerts, timers, nOps, last>>

\* handleShareProject after await copyToClipboard(publicUrl): lines 171-177 with
\* an existing identifier, lines 184-196 with a new one.  copyToClipboard has
\* returned: of its locals only the result, success, is left.
handleShareProjectCopied(n) ==
    /\ n \in 1..Len(shareOps)
    /\ shareOps[n].pc = "resume"
    /\ LET op == [shareOps[n] EXCEPT !.primary = "returned", !.fallback = "returned"]
       IN  IF ~op.success
           THEN \* alert("Failed to copy link to clipboard. Please try again."); return
                /\ alerts' = alerts + 1
                /\ shareOps' = [shareOps EXCEPT ![n] = [op EXCEPT !.pc = "done"]]
                /\ UNCHANGED <<copySuccess, timers>>
           ELSE /\ copySuccess' = TRUE
                /\ timers' = timers + 1
                /\ shareOps' = [shareOps EXCEPT ![n] =
                       IF op.generated
                       THEN [op EXCEPT !.pc = "persisting", !.update = "sent"]
                       ELSE [op EXCEPT !.pc = "done"]]
                /\ UNCHANGED alerts
    /\ UNCHANGED <<id, isLoaded, user, project, loading, error, location>>
    /\ UNCHANGED <<cardVars, hookVars, db, projQueries, saves, clipboardApi, clipboard,
                   copied, nOps, last>>

\* the backend answers .update({ public_share_id: shareId }).eq("id", project.id):
\* the row is written (ok), an error is returned, or the call throws
projectsUpdate(n, outcome) ==
    /\ n \in 1..Len(shareOps)
    /\ NoMicrotask
    /\ shareOps[n].pc = "persisting"
    /\ outcome \in {"ok", "error", "threw"}
    /\ LET op == shareOps[n]
       IN  /\ shareOps' = [shareOps EXCEPT ![n] =
                              [op EXCEPT !.pc = "answered", !.update = outcome]]
           /\ db' = IF outcome = "ok" /\ op.project.id \in DOMAIN db
                    THEN [db EXCEPT ![op.project.id].public_share_id = op.shareId]
                    ELSE db
    /\ UNCHANGED <<pageVars, cardVars, hookVars, projQueries, saves, clipboardApi,
                   clipboard, copied, alerts, timers, nOps, last>>

\* mutant: the project state is set without looking at the error
ProjectAfterUpdate_IgnoresError(op, current) ==
    [op.project EXCEPT !.public_share_id = op.shareId]

\* if (!error) setProject({ ...project, public_share_id: shareId })
ProjectAfterUpdate(op, current) ==
    IF op.update = "ok"
    THEN [op.project EXCEPT !.public_share_id = op.shareId]
    ELSE current

\* handleShareProject after the awaited update: lines 198-203
handleShareProjectUpdated(n) ==
    /\ n \in 1..Len(shareOps)
    /\ NoMicrotask
    /\ shareOps[n].pc = "answered"
    /\ LET op == shareOps[n]
       IN  /\ shareOps' = [shareOps EXCEPT ![n].pc = "done"]
           /\ project' = ProjectAfterUpdate(op, project)
    /\ UNCHANGED <<id, isLoaded, user, loading, error, copySuccess, location>>
    /\ UNCHANGED <<cardVars, hookVars, db, projQueries, saves, clipboardApi, clipboard,
                   copied, alerts, timers, nOps, last>>

\* setTimeout(() => setCopySuccess(false), 2000) fires
copySuccessTimeout ==
    /\ timers > 0
    /\ NoMicrotask
    /\ timers' = timers - 1
    /\ copySuccess' = FALSE
    /\ UNCHANGED <<id, isLoaded, user, project, loading, error, location>>
    /\ UNCHANGED <<cardVars, hookVars, db, projQueries, saves, shareOps, clipboardApi,
                   clipboard, copied, alerts, nOps, last>>

\* ------------------------------------------------------- useProjectData
\* the six supported data-type tags, and a tag outside them
SupportedDataTypes ==
    {"updates", "properties", "roadmap", "documents", "requirements",
     "client_tour_availability"}
DataTypes == SupportedDataTypes \cup {"other"}

\* const isPublicMode = Boolean(shareId)
isPublicMode(shareId) == shareId # ""

\* const isAuthenticatedMode = Boolean(projectId && user)
isAuthenticatedMode(projectId, usr) == projectId # "" /\ usr # NULL

\* public mode: the remote procedure of each data type
RpcName(dataType) ==
    CASE dataType = "updates" -> "get_public_project_updates"
      [] dataType = "properties" -> "get_public_properties"
      [] dataType = "roadmap" -> "get_public_project_roadmap"
      [] dataType = "documents" -> "get_public_project_documents"
      [] dataType = "requirements" -> "get_public_client_requirements"
      [] dataType = "client_tour_availability" -> "get_public_client_tour_availability"

\* authenticated mode: the table of each data type and its sort
TableName(dataType) ==
    CASE dataType = "updates" -> "project_updates"
      [] dataType = "properties" -> "properties"
      [] dataType = "roadmap" -> "project_roadmap"
      [] dataType = "documents" -> "project_documents"
      [] dataType = "requirements" -> "client_requirements"
      [] dataType = "client_tour_availability" -> "client_tour_availability"

OrderColumn(dataType) ==
    CASE dataType = "updates" -> [column |-> "update_date", ascending |-> FALSE]
      [] dataType \in {"properties", "roadmap", "documents"} ->
            [column |-> "order_key", ascending |-> TRUE]
      [] dataType = "requirements" -> [column |-> "category", ascending |-> TRUE]
      [] dataType = "client_tour_availability" ->
            [column |-> "proposed_datetime", ascending |-> TRUE]

\* mutant: a project identifier takes precedence over the share identifier
BackendCall_PrefersProjectId(n, projectId, shareId, dataType) ==
    IF projectId = ""
    THEN [n |-> n, kind |-> "rpc", name |-> RpcName(dataType), arg |-> shareId,
          order |-> [column |-> "", ascending |-> TRUE], dataType |-> dataType]
    ELSE [n |-> n, kind |-> "query", name |-> TableName(dataType), arg |-> projectId,
          order |-> OrderColumn(dataType), dataType |-> dataType]

\* the backend call fetchData issues with the given parameters
BackendCall(n, projectId, shareId, dataType) ==
    IF isPublicMode(shareId)
    THEN [n |-> n, kind |-> "rpc", name |-> RpcName(dataType), arg |-> shareId,
          order |-> [column |-> "", ascending |-> TRUE], dataType |-> dataType]
    ELSE [n |-> n, kind |-> "query", name |-> TableName(dataType), arg |-> projectId,
          order |-> OrderColumn(dataType), dataType |-> dataType]

\* mutant: "documents" is missing from the condition
IsOrderable_OmitsDocuments(dataType) ==
    dataType = "properties" \/ dataType = "roadmap"

\* the condition of the client-side sort
IsOrderable(dataType) ==
    dataType = "properties" \/ dataType = "roadmap" \/ dataType = "documents"

\* sortByOrderKey: ascending by order key (a stable insertion sort)
RECURSIVE InsertByOrderKey(_, _)
InsertByOrderKey(sorted, rec) ==
    IF sorted = <<>> THEN <<rec>>
    ELSE IF StrLess(rec.order_key, Head(sorted).order_key)
         THEN <<rec>> \o sorted
         ELSE <<Head(sorted)>> \o InsertByOrderKey(Tail(sorted), rec)

RECURSIVE sortByOrderKey(_)
sortByOrderKey(records) ==
    IF records = <<>> THEN <<>>
    ELSE InsertByOrderKey(sortByOrderKey(SubSeq(records, 1, Len(records) - 1)),
                          records[Len(records)])

\* what a successful fetch stores: lines 132-144
FetchedData(dataType, rows) ==
    IF IsOrderable(dataType) THEN sortByOrderKey(rows) ELSE rows

UnsupportedMessage(dataType) == "Unsupported data type: " \o dataType

\* fetchData up to its await, run with the parameters of the current render
fetchData(projectId, shareId, dataType, usr) ==
    IF ~isPublicMode(shareId) /\ ~isAuthenticatedMode(projectId, usr)
    THEN /\ hLoading' = FALSE
         /\ hLast' = [op |-> "fetch", called |-> FALSE]
         /\ UNCHANGED <<data, hError, hInflight, hCalls>>
    ELSE IF dataType \notin SupportedDataTypes
    THEN \* setError(null); throw; catch: setError(message); finally
         /\ hError' = UnsupportedMessage(dataType)
         /\ hLoading' = FALSE
         /\ hLast' = [op |-> "fetch", called |-> FALSE]
         /\ UNCHANGED <<data, hInflight, hCalls>>
    ELSE /\ hCalls < MaxCalls
         /\ hError' = NULL
         /\ hInflight' = hInflight \cup
                {BackendCall(hCalls + 1, projectId, shareId, dataType)}
         /\ hCalls' = hCalls + 1
         /\ hLast' = [op |-> "fetch", called |-> TRUE]
         /\ UNCHANGED <<data, hLoading>>

\* useEffect(() => { fetchData() }, [fetchData]) on mount
hookMount ==
    /\ ~hMounted
    /\ hMounted' = TRUE
    /\ fetchData(hProjectId, hShareId, hDataType, hUser)
    /\ UNCHANGED <<hProjectId, hShareId, hDataType, hUser>>
    /\ UNCHANGED <<pageVars, cardVars, envVars>>

\* mutant: the data-type tag is missing from the dependencies
DepsChanged_OmitsDataType(projectId, shareId, dataType, usr) ==
    \/ projectId # hProjectId \/ shareId # hShareId
    \/ isPublicMode(shareId) # isPublicMode(hShareId)
    \/ isAuthenticatedMode(projectId, usr) # isAuthenticatedMode(hProjectId, hUser)

\* fetchData's dependencies, lines 150-157, differ from the last render's
DepsChanged(projectId, shareId, dataType, usr) ==
    \/ projectId # hProjectId \/ shareId # hShareId \/ dataType # hDataType
    \/ isPublicMode(shareId) # isPublicMode(hShareId)
    \/ isAuthenticatedMode(projectId, usr) # isAuthenticatedMode(hProjectId, hUser)

\* a render with new parameters; the effect runs again when fetchData's
\* dependencies changed
hookRender(projectId, shareId, dataType, usr) ==
    /\ hMounted
    /\ <<projectId, shareId, dataType, usr>> # <<hProjectId, hShareId, hDataType, hUser>>
    /\ hProjectId' = projectId /\ hShareId' = shareId
    /\ hDataType' = dataType /\ hUser' = usr
    /\ IF DepsChanged(projectId, shareId, dataType, usr)
       THEN fetchData(projectId, shareId, dataType, usr)
       ELSE /\ hLast' = [op |-> "render"]
            /\ UNCHANGED <<data, hLoading, hError, hInflight, hCalls>>
    /\ UNCHANGED hMounted
    /\ UNCHANGED <<pageVars, cardVars, envVars>>

\* the caller invokes refetch
refetch ==
    /\ hMounted
    /\ fetchData(hProjectId, hShareId, hDataType, hUser)
    /\ UNCHANGED <<hProjectId, hShareId, hDataType, hUser, hMounted>>
    /\ UNCHANGED <<pageVars, cardVars, envVars>>

\* the rows the backend holds, as stored: keys descending along the ids
StoredRows == [i \in 1..MaxRecs |-> [id |-> i, order_key |-> OrderKeyOf(MaxRecs - i)]]

Reverse(seq) == [k \in 1..Len(seq) |-> seq[Len(seq) + 1 - k]]

\* the stored rows in any order the backend may return them
RowOrders ==
    {[k \in 1..MaxRecs |-> StoredRows[perm[k]]] :
        perm \in {f \in [1..MaxRecs -> 1..MaxRecs] :
                     \A a, b \in 1..MaxRecs : a # b => f[a] # f[b]}}

\* two of these orders: as stored, and reversed
TwoRowOrders == {StoredRows, Reverse(StoredRows)}

\* mutant: the response of a call that is not the latest is dropped
fetchDataReturned_DropsStale(call, rows) ==
    /\ call \in hInflight
    /\ hInflight' = hInflight \ {call}
    /\ data' = IF call.n = hCalls THEN FetchedData(call.dataType, rows) ELSE data
    /\ hLoading' = FALSE
    /\ hLast' = [op |-> "returned", rows |-> rows]
    /\ UNCHANGED <<hError, hCalls, hProjectId, hShareId, hDataType, hUser, hMounted>>
    /\ UNCHANGED <<pageVars, cardVars, envVars>>

\* fetchData after its await: the backend returned rows
fetchDataReturned(call, rows) ==
    /\ call \in hInflight
    /\ hInflight' = hInflight \ {call}
    /\ data' = FetchedData(call.dataType, rows)
    /\ hLoading' = FALSE
    /\ hLast' = [op |-> "returned", rows |-> rows]
    /\ UNCHANGED <<hError, hCalls, hProjectId, hShareId, hDataType, hUser, hMounted>>
    /\ UNCHANGED <<pageVars, cardVars, envVars>>

\* err instanceof Error ? err.message : "An error occurred"
ErrorMessage(isErrorInstance) ==
    IF isErrorInstance THEN "backend error" ELSE "An error occurred"

\* fetchData after its await: result.error was set, or the call threw
fetchDataFailed(call, isErrorInstance) ==
    /\ call \in hInflight
    /\ hInflight' = hInflight \ {call}
    /\ hError' = ErrorMessage(isErrorInstance)
    /\ hLoading' = FALSE
    /\ hLast' = [op |-> "failed"]
    /\ UNCHANGED <<data, hCalls, hProjectId, hShareId, hDataType, hUser, hMounted>>
    /\ UNCHANGED <<pageVars, cardVars, envVars>>

\* ---------------------------------------------------------- initial states
HookIdle ==
    /\ hProjectId = "" /\ hShareId = "" /\ hDataType = "updates" /\ hUser = NULL
    /\ data = <<>> /\ hLoading = TRUE /\ hError = NULL
    /\ hInflight = {} /\ hCalls = 0 /\ hMounted = FALSE
    /\ hLast = [op |-> "none"]

EnvIdle ==
    /\ db = InitialDb
    /\ projQueries = {} /\ saves = {} /\ shareOps = <<>>
    /\ clipboardApi = TRUE /\ clipboard = NULL /\ copied = {} /\ alerts = 0 /\ timers = 0
    /\ nOps = 0 /\ last = [op |-> "none"]

\* the page after a project fetch has succeeded for the signed-in user
PageShowing(row) ==
    /\ id = row.id /\ isLoaded = TRUE /\ user = "u1"
    /\ project = row /\ loading = FALSE /\ error = NULL
    /\ copySuccess = FALSE /\ location = "page"

\* card lists of length 1..MaxLen: the first cards of the default set, each with
\* any stale order key a0..aMaxKey
StaleCardLists ==
    UNION { { [k \in 1..n |-> [DEFAULT_CARD_ORDER[k] EXCEPT !.order_key = OrderKeyOf(f[k])]]
              : f \in [1..n -> 0..MaxKey] }
            : n \in 1..(IF MaxLen < 5 THEN MaxLen ELSE 5) }

InitReorder ==
    /\ PageShowing(InitialDb["p1"])
    /\ cardOrder \in StaleCardLists
    /\ localStore = cardOrder
    /\ EnvIdle
    /\ HookIdle

InitCards ==
    /\ PageShowing(InitialDb["p1"])
    /\ cardOrder = DEFAULT_CARD_ORDER
    /\ localStore = cardOrder
    /\ EnvIdle
    /\ HookIdle

\* the page with the project shown, and the hook not yet mounted
PageIdle ==
    /\ PageShowing(InitialDb["p1"])
    /\ cardOrder = DEFAULT_CARD_ORDER
    /\ localStore = cardOrder
    /\ EnvIdle

InitHook ==
    /\ PageIdle
    /\ hProjectId \in {"", "p1"} /\ hShareId \in {"", "s1"}
    /\ hDataType \in DataTypes /\ hUser \in {NULL, "u1"}
    /\ data = <<>> /\ hLoading = TRUE /\ hError = NULL
    /\ hInflight = {} /\ hCalls = 0 /\ hMounted = FALSE
    /\ hLast = [op |-> "none"]

\* a render changes one parameter: the route's project or share identifier, the
\* data-type tag, or the identity provider's user
HookTriggers ==
    \/ hookMount
    \/ \E projectId \in {"", "p1"} : hookRender(projectId, hShareId, hDataType, hUser)
    \/ \E shareId \in {"", "s1"} : hookRender(hProjectId, shareId, hDataType, hUser)
    \/ \E dataType \in DataTypes : hookRender(hProjectId, hShareId, dataType, hUser)
    \/ \E usr \in {NULL, "u1"} : hookRender(hProjectId, hShareId, hDataType, usr)
    \/ refetch

NextHook ==
    \/ HookTriggers
    \/ \E call \in hInflight, rows \in TwoRowOrders : fetchDataReturned(call, rows)
    \/ \E call \in hInflight, isErrorInstance \in BOOLEAN :
          fetchDataFailed(call, isErrorInstance)

\* the hook mounted once with any parameters, the backend answering in any order
NextFetchOrder ==
    \/ hookMount
    \/ refetch
    \/ \E call \in hInflight, rows \in RowOrders : fetchDataReturned(call, rows)
    \/ \E call \in hInflight, isErrorInstance \in BOOLEAN :
          fetchDataFailed(call, isErrorInstance)

SpecFetchOrder == InitHook /\ [][NextFetchOrder]_vars

SpecHook == InitHook /\ [][NextHook]_vars

\* stored card orders: a legacy array (entries without order_key), an array in
\* the current shape, and a value that is no array
LegacyStored ==
    [shape |-> "array",
     items |-> << [id |-> "roadmap", type |-> "roadmap", title |-> "Project Roadmap"],
                  [id |-> "updates", type |-> "updates", title |-> "Recent Updates"] >>]
CurrentStored == [shape |-> "array", items |-> UpdatedOrder(DEFAULT_CARD_ORDER, 4, 0)]
OtherStored == [shape |-> "other", items |-> <<>>]

\* the page right after its first render, before its effects have run
InitPage ==
    /\ id \in {"", "p1", "p2"}
    /\ isLoaded \in BOOLEAN
    /\ user \in {NULL, "u1"}
    /\ ~isLoaded => user = NULL
    /\ project = NoProject /\ loading = TRUE /\ error = NULL
    /\ copySuccess = FALSE /\ location = "mounting"
    /\ cardOrder = DEFAULT_CARD_ORDER
    /\ localStore = cardOrder
    /\ \E stored \in {NoStoredOrder, LegacyStored, CurrentStored, OtherStored} :
          db = [InitialDb EXCEPT !["p1"].dashboard_card_order = stored]
    /\ projQueries = {} /\ saves = {} /\ shareOps = <<>>
    /\ clipboardApi = TRUE /\ clipboard = NULL
    /\ copied = {} /\ alerts = 0 /\ timers = 0
    /\ nOps = 0 /\ last = [op |-> "none"]
    /\ HookIdle

NextPage ==
    \/ pageMount
    \/ \E loaded \in BOOLEAN, usr \in {NULL, "u1"} : identityChanged(loaded, usr)
    \/ \E newId \in {"", "p1", "p2"} : routeChanged(newId)
    \/ headerRefresh
    \/ \E query \in projQueries, failure \in {"none", "error", "threw"} :
          projectsSelect(query, failure)
    \/ \E query \in projQueries : fetchProjectAnswered(query)
    \/ \E s \in saves, ok \in BOOLEAN : saveDashboardCardOrderDone(s, ok)
    \/ backToProjects

SpecPage == InitPage /\ [][NextPage]_vars

\* one session on a project whose stored card order is the one displayed; the
\* backend never fails a card-order save
InitSync ==
    /\ db = [InitialDb EXCEPT !["p1"].dashboard_card_order = CurrentStored]
    /\ PageShowing(db["p1"])
    /\ cardOrder = CurrentStored.items
    /\ localStore = cardOrder
    /\ projQueries = {} /\ saves = {} /\ shareOps = <<>>
    /\ clipboardApi = TRUE /\ clipboard = NULL
    /\ copied = {} /\ alerts = 0 /\ timers = 0
    /\ nOps = 0 /\ last = [op |-> "none"]
    /\ HookIdle

NextSync ==
    \/ \E oldIndex, newIndex \in 0..4 : handleCardReorder(oldIndex, newIndex)
    \/ headerRefresh
    \/ \E query \in projQueries, failure \in {"none", "error", "threw"} :
          projectsSelect(query, failure)
    \/ \E query \in projQueries : fetchProjectAnswered(query)
    \/ \E s \in saves : saveDashboardCardOrderDone(s, TRUE)

SpecSync == InitSync /\ [][NextSync]_vars

InitShare ==
    /\ PageShowing(InitialDb["p1"])
    /\ cardOrder = DEFAULT_CARD_ORDER
    /\ localStore = cardOrder
    /\ db = InitialDb
    /\ projQueries = {} /\ saves = {} /\ shareOps = <<>>
    /\ clipboardApi \in BOOLEAN /\ clipboard = NULL
    /\ copied = {} /\ alerts = 0 /\ timers = 0
    /\ nOps = 0 /\ last = [op |-> "none"]
    /\ HookIdle

NextShare ==
    \/ \E fallbackOk \in BOOLEAN : handleShareProject(fallbackOk)
    \/ \E n \in 1..MaxShares, resolved, fallbackOk \in BOOLEAN :
          copyToClipboard(n, resolved, fallbackOk)
    \/ \E n \in 1..MaxShares : handleShareProjectCopied(n)
    \/ \E n \in 1..MaxShares, outcome \in {"ok", "error", "threw"} :
          projectsUpdate(n, outcome)
    \/ \E n \in 1..MaxShares : handleShareProjectUpdated(n)
    \/ copySuccessTimeout

SpecShare == InitShare /\ [][NextShare]_vars

NextCards ==
    \/ \E oldIndex, newIndex \in 0..4 : handleCardReorder(oldIndex, newIndex)
    \/ \E s \in saves, ok \in BOOLEAN : saveDashboardCardOrderDone(s, ok)

SpecReorder == InitReorder /\ [][NextCards]_vars
SpecCards == InitCards /\ [][NextCards]_vars

\* ================================================================ claims
\* digits is the decimal numeral of n, without a leading zero
RECURSIVE DecimalValue(_)
DecimalValue(digits) ==
    IF digits = <<>> THEN 0
    ELSE 10 * DecimalValue(SubSeq(digits, 1, Len(digits) - 1))
         + (digits[Len(digits)] - Char0)

IsNumeralOf(digits, n) ==
    /\ Len(digits) >= 1
    /\ \A k \in 1..Len(digits) : digits[k] \in Char0..(Char0 + 9)
    /\ Len(digits) > 1 => digits[1] # Char0
    /\ DecimalValue(digits) = n

\* the position in the old list of the card shown at position k after the card
\* at position i was removed and reinserted at position j (positions from 0)
MovedFrom(k, i, j) ==
    IF k = j THEN i
    ELSE LET m == IF k < j THEN k ELSE k - 1
         IN  IF m < i THEN m ELSE m + 1

\* C1: after handleCardReorder(i, j) on a list of N cards the card order is the
\* old list with the card at position i removed and reinserted at position j,
\* every other card keeping its relative order; the card at position k has the
\* order key "a" followed by the numeral of k; id, type and title are unchanged.
C1_ReorderMovesCardAndRegeneratesKeys ==
    last.op = "reorder" =>
        LET old == last.before
            i   == last.from
            j   == last.to
        IN  /\ Len(cardOrder) = Len(old)
            /\ \A k \in 0..(Len(old) - 1) :
                  LET now  == cardOrder[k + 1]
                      then == old[MovedFrom(k, i, j) + 1]
                  IN  /\ now.id = then.id
                      /\ now.type = then.type
                      /\ now.title = then.title
                      /\ Head(now.order_key) = CharA
                      /\ IsNumeralOf(Tail(now.order_key), k)

\* a card of a three-card list with stale keys was moved from the front to the end
C1_Witness ==
    /\ last.op = "reorder" /\ last.from = 0 /\ last.to = 2
    /\ Len(last.before) = 3
    /\ last.before[1].order_key = OrderKeyOf(2)
    /\ cardOrder[3].id = "updates"

CardTypes == {"updates", "availability", "properties", "roadmap", "documents"}

\* C2: from the default five-card order, after any sequence of reorder operations
\* the card order holds each of the five built-in card types exactly once, the
\* order keys are pairwise distinct, and the keys ascend strictly along the
\* display order in string comparison (so sorting by key gives the display order).
C2_FiveCardsDistinctKeysInDisplayOrder ==
    /\ Len(cardOrder) = 5
    /\ {cardOrder[k].type : k \in 1..5} = CardTypes
    /\ \A a, b \in 1..5 : a # b => cardOrder[a].order_key # cardOrder[b].order_key
    /\ \A a, b \in 1..5 : a < b => StrLess(cardOrder[a].order_key, cardOrder[b].order_key)

\* two reorder operations have brought the last default card to the front
C2_Witness ==
    /\ nOps = 2
    /\ last.op = "reorder"
    /\ cardOrder[1].type = "documents"
    /\ cardOrder[2].type = "roadmap"

\* the fetch just run had neither a usable share identifier nor a usable project
\* identifier
FetchRanUnusable ==
    /\ hLast.op = "fetch"
    /\ ~isPublicMode(hShareId)
    /\ ~isAuthenticatedMode(hProjectId, hUser)

\* C3: whenever the fetch runs with neither identifier usable, the hook's state
\* is data = [], loading = false, error = null and no backend call was issued,
\* whatever happened before.
C3_UnusableFetchYieldsEmptyState ==
    FetchRanUnusable =>
        /\ data = <<>>
        /\ hLoading = FALSE
        /\ hError = NULL
        /\ hLast.called = FALSE

\* the fetch just run was in public or authenticated mode with an unsupported tag
FetchRanUnsupported ==
    /\ hLast.op = "fetch"
    /\ isPublicMode(hShareId) \/ isAuthenticatedMode(hProjectId, hUser)
    /\ hDataType \notin SupportedDataTypes

\* C4: whenever the fetch runs in public or authenticated mode with a tag outside
\* the six supported ones, the hook ends with the unsupported-data-type error,
\* empty data and loading = false, and no backend call was issued, whatever
\* happened before.
C4_UnsupportedTagYieldsErrorAndEmptyData ==
    FetchRanUnsupported =>
        /\ hError # NULL
        /\ hError = UnsupportedMessage(hDataType)
        /\ data = <<>>
        /\ hLoading = FALSE
        /\ hLast.called = FALSE

Occurrences(seq, x) == Cardinality({k \in 1..Len(seq) : seq[k] = x})

SameRecords(s, t) ==
    /\ Len(s) = Len(t)
    /\ \A k \in 1..Len(s) : Occurrences(s, s[k]) = Occurrences(t, s[k])

AscendingByOrderKey(seq) ==
    \A a, b \in 1..Len(seq) : a < b => ~StrLess(seq[b].order_key, seq[a].order_key)

\* C5: after a successful fetch with data type properties, roadmap or documents
\* the hook's data is the returned records in ascending order of order key (the
\* same records, whatever order they came in); with data type updates,
\* requirements or client_tour_availability it is the records exactly as returned.
C5_SuccessfulFetchSortsOrderableTypesOnly ==
    hLast.op = "returned" =>
        IF hDataType \in {"properties", "roadmap", "documents"}
        THEN /\ SameRecords(data, hLast.rows)
             /\ AscendingByOrderKey(data)
        ELSE data = hLast.rows

KeysOf(seq) == [k \in 1..Len(seq) |-> seq[k].order_key]

\* properties returned with keys a2, a0, a1 are stored as a0, a1, a2
C5_Witness ==
    /\ hLast.op = "returned"
    /\ hDataType = "properties"
    /\ KeysOf(hLast.rows) = <<OrderKeyOf(2), OrderKeyOf(0), OrderKeyOf(1)>>
    /\ KeysOf(data) = <<OrderKeyOf(0), OrderKeyOf(1), OrderKeyOf(2)>>

ShareOpNumbers == 1..Len(shareOps)

\* C6: on a loaded project with no share identifier and a working clipboard (the
\* API is there and no copy has failed) the first share operation generates an
\* identifier and copies its URL; if persisting it succeeded, every share operation started after the first has
\* completed generates no identifier, issues no project update and copies the
\* same URL.
C6_LaterSharesCopyTheFirstUrl ==
    (clipboardApi /\ alerts = 0) =>
    \A n \in ShareOpNumbers :
        LET first == shareOps[1]
            op    == shareOps[n]
        IN  /\ (n = 1 /\ op.success /\ op.pc \in {"persisting", "answered", "done"}) =>
                  /\ op.generated
                  /\ PublicUrl(op.shareId) \in copied
            /\ (first.pc = "done" /\ first.update = "ok" /\ op.afterFirst) =>
                  /\ ~op.generated
                  /\ op.update = "none"
                  /\ (op.success => PublicUrl(op.shareId) = PublicUrl(first.shareId))

\* copyToClipboard is about to return after a missing or failing primary API
PrimaryUnavailable(op) == op.pc = "resume" /\ op.primary \in {"absent", "rejected"}

\* the step in which operation n, on a project without identifier, goes on after
\* both copies failed
BothCopiesFailedStep(n) ==
    /\ shareOps[n].pc = "resume"
    /\ shareOps[n].generated
    /\ ~shareOps[n].success
    /\ shareOps'[n].pc # "resume"

\* C7: in copyToClipboard a missing or failing primary clipboard API always leads
\* to the fallback copy being attempted; and when, for a project without share
\* identifier, both copies fail, an alert is shown, no update of the share
\* identifier is sent, the local project state is unchanged and the copy-success
\* indicator is not set.
C7_FallbackTriedAndDoubleFailureAborts ==
    /\ [](\A n \in ShareOpNumbers :
            PrimaryUnavailable(shareOps[n]) => shareOps[n].fallback \in {"ok", "failed"})
    /\ [][\A n \in ShareOpNumbers :
            BothCopiesFailedStep(n) =>
                /\ alerts' = alerts + 1
                /\ shareOps'[n].pc = "done"
                /\ shareOps'[n].update = "none"
                /\ db' = db
                /\ project' = project
                /\ copySuccess' = copySuccess]_vars

\* with navigator.clipboard present, a first share ended with the alert and
\* nothing stored
C7_Witness ==
    /\ clipboardApi
    /\ Len(shareOps) = 1
    /\ shareOps[1].pc = "done" /\ shareOps[1].generated /\ ~shareOps[1].success
    /\ alerts = 1
    /\ ~copySuccess
    /\ project.public_share_id = NULL
    /\ db["p1"].public_share_id = NULL

\* the step in which operation n issues the request that persists its identifier
PersistIssuedStep(n) ==
    /\ shareOps[n].pc # "persisting"
    /\ shareOps'[n].pc = "persisting"

\* the step in which operation n goes on after its persistence request failed
PersistFailedStep(n) ==
    /\ shareOps[n].pc = "answered"
    /\ shareOps[n].update \in {"error", "threw"}
    /\ shareOps'[n].pc # "answered"

\* C8: on a project without share identifier the URL is on the clipboard before
\* the step that issues the persistence request; when that request fails (an
\* error is returned, or it throws) the failure is swallowed: no alert, no
\* further persistence request (the operation is over for good), the
\* copy-success indicator and the local project state are left as they are; and
\* as long as no persistence request has succeeded the local project state has
\* no share identifier.
C8_CopyBeforePersistAndFailureSwallowed ==
    /\ [][\A n \in ShareOpNumbers :
            PersistIssuedStep(n) =>
                /\ shareOps[n].generated
                /\ PublicUrl(shareOps[n].shareId) \in copied]_vars
    /\ [][\A n \in ShareOpNumbers :
            PersistFailedStep(n) =>
                /\ alerts' = alerts
                /\ shareOps'[n].pc = "done"
                /\ \A m \in ShareOpNumbers :
                      shareOps'[m].pc = "persisting" => shareOps[m].pc = "persisting"
                /\ Len(shareOps') = Len(shareOps)
                /\ copySuccess' = copySuccess
                /\ project' = project
                /\ db' = db]_vars
    /\ [][\A n \in ShareOpNumbers :
            shareOps[n].pc = "done" => shareOps'[n] = shareOps[n]]_vars
    /\ []((\A n \in ShareOpNumbers : shareOps[n].update # "ok")
            => project.public_share_id = NULL)

\* a first share copied its URL, its persistence request failed, and the
\* copy-success indicator is still shown
C8_Witness ==
    /\ Len(shareOps) = 1
    /\ shareOps[1].pc = "done" /\ shareOps[1].generated
    /\ shareOps[1].update \in {"error", "threw"}
    /\ clipboard = PublicUrl(shareOps[1].shareId)
    /\ alerts = 0
    /\ copySuccess
    /\ project.public_share_id = NULL

\* C9: every URL a share operation has successfully copied is a working link
\* once the operation has completed: its share identifier is the public share
\* identifier stored on the project record, also when persisting it failed.
C9_CopiedUrlIsStoredOnProjectRecord ==
    \A n \in ShareOpNumbers :
        (shareOps[n].pc = "done" /\ shareOps[n].success) =>
            db[shareOps[n].project.id].public_share_id = shareOps[n].shareId

\* the project lookups issued by a step
IssuedQueries == {q \in projQueries' : q.pc = "sent"} \ projQueries

\* a step in which the auth effect runs
EffectRan == last' = [op |-> "effect"] /\ (location' # location \/ isLoaded' # isLoaded
                                           \/ user' # user \/ id' # id)

\* C10: when the identity provider is loaded and there is no user the page
\* navigates to "/" and issues no project query; a project query is issued only
\* with the provider loaded, a user and a project identifier present, and it
\* selects only the record with that identifier whose soft-delete marker is null
C10_RedirectWithoutUserAndQueryOnlyLiveRecord ==
    /\ [][(EffectRan /\ isLoaded' /\ user' = NULL)
            => (location' = "/" /\ projQueries' = projQueries)]_vars
    /\ [](isLoaded /\ user = NULL /\ location # "mounting" => location = "/")
    /\ [][\A q \in IssuedQueries :
            /\ isLoaded' /\ user' # NULL /\ id' # ""
            /\ Selected(q) \subseteq {id'}
            /\ \A p \in Selected(q) : db[p].deleted_at = NULL]_vars
    /\ [](\A q \in projQueries :
            q.result = "data" => /\ q.row.deleted_at = NULL
                                 /\ \E f \in q.filters :
                                      f.column = "id" /\ f.value = q.row.id)

\* a lookup issued for a signed-in user was answered with the live record, the
\* user then signed out, and the page went to "/" without a second lookup
C10_Witness ==
    /\ location = "/" /\ isLoaded /\ user = NULL /\ id = "p1"
    /\ nOps = 1
    /\ \E q \in projQueries : q.result = "data" /\ q.row.id = "p1"

\* the "Project not found" view: lines 241-272
ShowsNotFound ==
    /\ location = "page"
    /\ isLoaded /\ ~loading
    /\ error # NULL \/ project = NoProject

\* the project lookups whose answer a step handles
HandledQueries == projQueries \ projQueries'

\* C11: when the project lookup returns an error, returns no record or throws,
\* fetchProject ends with a non-null error and loading = false, the page shows
\* the "Project not found" view, the card order (displayed and local) is not
\* changed and no card-order write-back is sent.
C11_FailedLookupShowsNotFoundAndKeepsCards ==
    [][\A q \in HandledQueries :
          q.result \in {"error", "threw"} =>
              /\ error' # NULL
              /\ loading' = FALSE
              /\ ShowsNotFound'
              /\ cardOrder' = cardOrder /\ localStore' = localStore
              /\ saves' = saves]_vars

\* after a project with a stored order was shown, the route went to a
\* soft-deleted project: no record, the error is set, the cards stay
C11_Witness ==
    /\ last = [op |-> "fetched", result |-> "error"]
    /\ id = "p2"
    /\ error = "Failed to load project" /\ ~loading
    /\ ShowsNotFound
    /\ project # NoProject
    /\ project.id = "p1"
    /\ cardOrder = CurrentStored.items
    /\ saves = {}

\* a step that is a reorder operation
ReorderStep == nOps' = nOps + 1 /\ last'.op = "reorder"

\* a step in which the named save is answered with a failure
SaveFailedStep(s) == s \notin saves' /\ last' = [op |-> "saveDone", n |-> s.n, ok |-> FALSE]

\* C12: a reorder changes the displayed card order and the local preference
\* store in the same step, while its remote save is still in flight and the
\* project record untouched; a failing save changes neither the displayed nor
\* the locally stored order.
C12_ReorderIsOptimisticWithoutRollback ==
    /\ [][ReorderStep =>
            /\ localStore' = cardOrder'
            /\ \E s \in saves' \ saves : s.order = cardOrder'
            /\ db' = db]_vars
    /\ [][\A s \in saves : SaveFailedStep(s) =>
            /\ cardOrder' = cardOrder
            /\ localStore' = localStore]_vars

\* the save of a reorder failed: the reordered cards are still displayed and
\* locally stored, and the project record holds no order
C12_Witness ==
    /\ last.op = "saveDone" /\ ~last.ok
    /\ saves = {}
    /\ cardOrder # DEFAULT_CARD_ORDER
    /\ cardOrder[1].type = "documents"
    /\ localStore = cardOrder
    /\ db["p1"].dashboard_card_order = NoStoredOrder

\* the stored order is present and legacy-shaped: no array, or an array with an
\* entry that carries no order_key
LegacyShaped(stored) ==
    \/ stored.shape = "other"
    \/ /\ stored.shape = "array"
       /\ \E k \in 1..Len(stored.items) : "order_key" \notin DOMAIN stored.items[k]

\* order is the migrated form of stored: the default order when no array is
\* stored, the stored entries when all carry a key, else the same cards in the
\* same order, each with a key of its own
IsMigratedFormOf(order, stored) ==
    IF stored.shape # "array" THEN order = DEFAULT_CARD_ORDER
    ELSE IF ~LegacyShaped(stored) THEN order = stored.items
    ELSE /\ Len(order) = Len(stored.items)
         /\ \A k \in 1..Len(order) :
               /\ order[k].id = stored.items[k].id
               /\ order[k].type = stored.items[k].type
               /\ "order_key" \in DOMAIN order[k]
         /\ \A a, b \in 1..Len(order) : a # b => order[a].order_key # order[b].order_key

\* C13: a successful project fetch sets the card order to the migrated form of
\* the server-stored order (the default order when none is stored) and reaches
\* loading = false in the same step; it issues a write-back of that order for the
\* project exactly when the stored order is present and legacy-shaped, and the
\* write-back is then still in flight.
C13_FetchAdoptsMigratedOrderAndWritesBackLegacyOnly ==
    [][\A q \in HandledQueries :
          q.result = "data" =>
              LET stored == q.row.dashboard_card_order
              IN  /\ IsMigratedFormOf(cardOrder', stored)
                  /\ loading' = FALSE
                  /\ IF LegacyShaped(stored)
                     THEN \E s \in saves' \ saves :
                             /\ s.order = cardOrder' /\ s.projectId = q.row.id
                             /\ saves' = saves \cup {s}
                     ELSE saves' = saves]_vars

\* a legacy order of two cards was fetched: the cards carry fresh keys, loading
\* is over and the write-back is still in flight
C13_Witness ==
    /\ last = [op |-> "fetched", result |-> "data"]
    /\ ~loading
    /\ db["p1"].dashboard_card_order = LegacyStored
    /\ Len(cardOrder) = 2
    /\ cardOrder[1].type = "roadmap" /\ cardOrder[1].order_key = OrderKeyOf(0)
    /\ \E s \in saves : s.order = cardOrder

\* the backend calls whose answer a step handles
HandledCalls == hInflight \ hInflight'

\* C14: in-flight requests are not cancelled: the answer to every call is
\* applied when it arrives, whether or not a later call was issued meanwhile and
\* whatever the current parameters are: returned rows become the data (sorted
\* by the call's own data type), a failure becomes the error.
C14_StaleResponseOverwritesNewerState ==
    [][\A call \in HandledCalls :
          /\ hLast'.op = "returned" =>
                IF call.dataType \in {"properties", "roadmap", "documents"}
                THEN SameRecords(data', hLast'.rows) /\ AscendingByOrderKey(data')
                ELSE data' = hLast'.rows
          /\ hLast'.op = "failed" => hError' # NULL]_vars

\* no request is in flight, the current data type is properties, and the data
\* is the unsorted answer to the earlier call for another data type, which
\* arrived after the answer to the later call
C14_Witness ==
    /\ hInflight = {}
    /\ hCalls = 2
    /\ hDataType = "properties" /\ hShareId = "s1"
    /\ hLast.op = "returned"
    /\ hLast.rows = StoredRows
    /\ data = StoredRows
    /\ ~AscendingByOrderKey(data)

\* the backend calls a step issues
IssuedCalls == hInflight' \ hInflight

\* C15: every step of the hook issues at most one backend call, and only a run
\* of the fetch does; the step that handles an answer, failed or not, issues no
\* call and ends with loading = false; a render that changes projectId, shareId
\* or the data-type tag runs the fetch.
C15_SingleAttemptNoRetryAndRefetchOnChange ==
    /\ [][/\ Cardinality(IssuedCalls) <= 1
          /\ hCalls' <= hCalls + 1
          /\ IssuedCalls # {} => hLast'.op = "fetch"]_vars
    /\ [][HandledCalls # {} =>
            /\ IssuedCalls = {}
            /\ hCalls' = hCalls
            /\ hLoading' = FALSE]_vars
    /\ [][(hProjectId' # hProjectId \/ hShareId' # hShareId \/ hDataType' # hDataType)
            => hLast'.op = "fetch"]_vars

\* the only call failed and nothing was retried: no call in flight, one call
\* counted, the error shown, loading over
C15_Witness ==
    /\ hLast.op = "failed"
    /\ hCalls = 1
    /\ hInflight = {}
    /\ hError = "backend error"
    /\ ~hLoading

\* the hook has a share identifier, a project identifier and a signed-in user
BothIdentifiers == hShareId # "" /\ hProjectId # "" /\ hUser # NULL

\* C16: with a share identifier, a project identifier and a signed-in user both
\* mode flags are true, a fetch with a supported data type issues a call, and
\* every call issued is one call, the public remote procedure of the data type
\* with the share identifier, never a table query.
C16_PublicModeWinsWhenBothIdentifiersGiven ==
    /\ [](BothIdentifiers =>
            /\ isPublicMode(hShareId) /\ isAuthenticatedMode(hProjectId, hUser)
            /\ (hLast.op = "fetch" /\ hDataType \in SupportedDataTypes) => hLast.called)
    /\ [][(BothIdentifiers' /\ IssuedCalls # {}) =>
            /\ Cardinality(IssuedCalls) = 1
            /\ \A call \in IssuedCalls :
                  /\ call.kind = "rpc"
                  /\ call.dataType = hDataType'
                  /\ call.name = RpcName(hDataType')
                  /\ call.arg = hShareId']_vars

\* documents fetched with share identifier, project identifier and user: the
\* call in flight is the remote procedure with the share identifier
C16_Witness ==
    /\ hShareId = "s1" /\ hProjectId = "p1" /\ hUser = "u1"
    /\ hDataType = "documents"
    /\ hLast = [op |-> "fetch", called |-> TRUE]
    /\ \E call \in hInflight :
          call.n = hCalls /\ call.kind = "rpc" /\ call.arg = "s1"

\* C17: when a project fetch completes successfully the page shows the project:
\* error is null and project is the fetched record, whatever fetches came before.
C17_SuccessfulFetchShowsProject ==
    [][\A q \in HandledQueries :
          q.result = "data" =>
              /\ error' = NULL
              /\ project' = q.row
              /\ ShowsProject']_vars

\* the share operations that generated an identifier and persisted it
PersistedGenerations ==
    {n \in ShareOpNumbers : shareOps[n].generated /\ shareOps[n].update = "ok"}

\* C18: once a public share identifier is stored on the project record no share
\* operation replaces it with a different one, and over all share operations,
\* overlapping or not, at most one identifier is generated and persisted.
C18_StoredShareIdentifierIsNeverReplaced ==
    /\ [][\A p \in DOMAIN db :
            db[p].public_share_id # NULL =>
                db'[p].public_share_id = db[p].public_share_id]_vars
    /\ [](Cardinality(PersistedGenerations) <= 1)

\* C19: whenever no card-order save and no project fetch is in flight (every
\* save so far having succeeded), the card order stored on the project record is
\* the card order displayed, which is also the one in the local preference store.
C19_RemoteOrderEqualsDisplayedOrderWhenQuiescent ==
    (saves = {} /\ projQueries = {}) =>
        /\ db["p1"].dashboard_card_order = [shape |-> "array", items |-> cardOrder]
        /\ localStore = cardOrder
====
